---- MODULE Spec2Model ----
(***************************************************************************)
(* A model of endstone_bstats: the chart payload functions (_charts/*.py)  *)
(* and the scheduled submission cycle of MetricsBase (_base.py).           *)
(***************************************************************************)
EXTENDS Integers, Sequences, FiniteSets, TLC

\* ------------------------------------------------------------------------
\* Bounds of the model
\* ------------------------------------------------------------------------
\* number of distinct keys a producer mapping may use
NumKeys == 3
\* producer mappings take their integer values in -1 .. MaxVal
MaxVal == 2
\* number of charts the application may register
NumCharts == 2
\* random.random() is drawn from {0/RandDenom, ..., (RandDenom-1)/RandDenom}
RandDenom == 2
\* firings of the fixed-rate task that are followed
MaxRateRuns == 2
\* the clock runs SendQuantum seconds at a time while a network POST blocks the worker,
\* MaxSendTicks times in all
MaxSendTicks == 2
SendQuantum == 1000
\* the strs that are compressed have at most MaxTextLen characters
MaxTextLen == 2
\* uuid.uuid4() returns one of NumUuids values
NumUuids == 2
\* calls of _load_config that are followed
MaxLoads == 3

\* ------------------------------------------------------------------------
\* Python values
\* ------------------------------------------------------------------------
\* None
None == [tag |-> "none"]
\* a str
Str(s) == [tag |-> "str", s |-> s]
\* a dict, as a function from its keys to its values
Dict(d) == [tag |-> "dict", d |-> d]
\* the empty dict {}
EmptyMap == [k \in {} |-> 0]
\* d[k] = v on a dict d
Put(d, k, v) == [x \in (DOMAIN d) \cup {k} |-> IF x = k THEN v ELSE d[x]]

\* bool(value) of an optional str or an optional dict: None, "" and {} are falsy
Truthy(value) ==
    CASE value.tag = "none" -> FALSE
      [] value.tag = "str"  -> value.s # ""
      [] value.tag = "dict" -> DOMAIN value.d # {}

AllKeys == <<"a", "b", "c", "d", "e">>
Keys == {AllKeys[i] : i \in 1..NumKeys}
Vals == (0 - 1)..MaxVal
\* the str | None results a producer of SimplePie can return
StrResults == {None, Str(""), Str("42"), Str("a")}
\* the Dict[str, int] | None results a producer of the mapping charts can return
MapResults == {None} \cup {Dict(m) : m \in UNION {[ks -> Vals] : ks \in SUBSET Keys}}

\* ------------------------------------------------------------------------
\* _charts: get_chart_data of each chart type
\* ------------------------------------------------------------------------
\* a bug of the emptiness test: only None is taken as "nothing to report"
TruthyOnlyNone(value) == value.tag # "none"

\* SimplePie.get_chart_data with that bug
SimplePie_get_chart_data_OnlyNone(value) ==
    IF ~TruthyOnlyNone(value)
    THEN None
    ELSE Dict(Put(EmptyMap, "value", value.s))

\* simple_pie.py, SimplePie.get_chart_data
SimplePie_get_chart_data(value) ==
    IF ~Truthy(value)
    THEN None
    ELSE Dict(Put(EmptyMap, "value", value.s))

\* pie.py, SimplePie.get_chart_data (the second copy of the class)
Pie_SimplePie_get_chart_data(value) ==
    IF ~Truthy(value)
    THEN None
    ELSE Dict(Put(EmptyMap, "value", value.s))

\* a bug of the zero filter: only positive values are kept
KeepsPositive(value) == value > 0

\* `if value == 0: continue` of pie.py / `if value != 0` of multi_line_chart.py
KeepsValue(value) == value # 0

\* pie.py, the loop of AdvancedPie.get_chart_data over map_values.items()
RECURSIVE AdvancedPieLoop(_, _, _)
AdvancedPieLoop(map_values, todo, values) ==
    IF todo = {}
    THEN values
    ELSE LET key == CHOOSE k \in todo : TRUE
         IN  IF ~KeepsValue(map_values[key])
             THEN AdvancedPieLoop(map_values, todo \ {key}, values)
             ELSE AdvancedPieLoop(map_values, todo \ {key},
                                  Put(values, key, map_values[key]))

\* pie.py, AdvancedPie.get_chart_data
AdvancedPie_get_chart_data(map_values) ==
    IF ~Truthy(map_values)
    THEN None
    ELSE LET values == AdvancedPieLoop(map_values.d, DOMAIN map_values.d, EmptyMap)
         IN  IF ~Truthy(Dict(values))
             THEN None
             ELSE Dict(Put(EmptyMap, "values", values))

\* multi_line_chart.py, MultiLineChart.get_chart_data
MultiLineChart_get_chart_data(map_values) ==
    IF ~Truthy(map_values)
    THEN None
    ELSE LET values == [key \in {k \in DOMAIN map_values.d : KeepsValue(map_values.d[k])}
                            |-> map_values.d[key]]
         IN  IF ~Truthy(Dict(values))
             THEN None
             ELSE Dict(Put(EmptyMap, "values", values))

\* a bar chart that drops its zero entries as the pie and line charts do
SimpleBarChart_get_chart_data_DropsZero(map_values) ==
    IF ~Truthy(map_values)
    THEN None
    ELSE LET values == [key \in {k \in DOMAIN map_values.d : KeepsValue(map_values.d[k])}
                            |-> <<map_values.d[key]>>]
         IN  IF ~Truthy(Dict(values))
             THEN None
             ELSE Dict(Put(EmptyMap, "values", values))

\* simple_bar_chart.py, SimpleBarChart.get_chart_data
SimpleBarChart_get_chart_data(map_values) ==
    IF ~Truthy(map_values)
    THEN None
    ELSE LET values == [key \in DOMAIN map_values.d |-> <<map_values.d[key]>>]
         IN  Dict(Put(EmptyMap, "values", values))

ChartTypes == {"SimplePie", "PieSimplePie", "AdvancedPie", "MultiLineChart", "SimpleBarChart"}

\* get_chart_data of a chart of type ty whose producer returned value
get_chart_data(ty, value) ==
    CASE ty = "SimplePie"      -> SimplePie_get_chart_data(value)
      [] ty = "PieSimplePie"   -> Pie_SimplePie_get_chart_data(value)
      [] ty = "AdvancedPie"    -> AdvancedPie_get_chart_data(value)
      [] ty = "MultiLineChart" -> MultiLineChart_get_chart_data(value)
      [] ty = "SimpleBarChart" -> SimpleBarChart_get_chart_data(value)

\* the results the producer of a chart of type ty is declared to return
ProducerResults(ty) ==
    IF ty \in {"SimplePie", "PieSimplePie"} THEN StrResults ELSE MapResults

VARIABLES
    produced,    \* the value the chart producer (get_value / get_values) returns
    chart_out    \* per chart type: the result of get_chart_data, once it was called

chartVars == <<produced, chart_out>>

\* get_chart_data has not been called
Unset == [tag |-> "unset"]
\* the call raises
Raise == [tag |-> "raise"]

\* ------------------------------------------------------------------------
\* Compression: Metrics.compress (_metrics.py) and MetricsBase._compress (_base.py)
\* ------------------------------------------------------------------------
\* a str is a sequence of code points, a bytes object a sequence of 0..255
\* 'A', '"', U+00E9, U+20AC, U+1F600 and the lone surrogate U+D800
CodePoints == {65, 34, 233, 8364, 128512, 55296}
\* the strs of at most MaxTextLen characters
Texts == UNION {[1..n -> CodePoints] : n \in 0..MaxTextLen}
\* a bytes object
Bytes(b) == [tag |-> "bytes", b |-> b]
\* the concatenation of the sequences of a sequence
RECURSIVE Concat(_)
Concat(seqs) == IF seqs = <<>> THEN <<>> ELSE Head(seqs) \o Concat(Tail(seqs))

IsSurrogate(cp) == 55296 <= cp /\ cp <= 57343

\* the UTF-8 bytes of one code point that is not a surrogate
Utf8EncodeChar(cp) ==
    IF cp < 128 THEN <<cp>>
    ELSE IF cp < 2048 THEN <<192 + (cp \div 64), 128 + (cp % 64)>>
    ELSE IF cp < 65536
    THEN <<224 + (cp \div 4096), 128 + ((cp \div 64) % 64), 128 + (cp % 64)>>
    ELSE <<240 + (cp \div 262144), 128 + ((cp \div 4096) % 64),
           128 + ((cp \div 64) % 64), 128 + (cp % 64)>>

\* text.encode("utf-8"): UnicodeEncodeError on a surrogate
Utf8Encode(text) ==
    IF \E i \in 1..Len(text) : IsSurrogate(text[i])
    THEN Raise
    ELSE Bytes(Concat([i \in 1..Len(text) |-> Utf8EncodeChar(text[i])]))

\* n as two and as four little-endian bytes
LE16(n) == <<n % 256, (n \div 256) % 256>>
LE32(n) == <<n % 256, (n \div 256) % 256, (n \div 65536) % 256,
             (n \div 16777216) % 256>>
\* the number whose little-endian bytes are b
RECURSIVE FromLE(_)
FromLE(b) == IF b = <<>> THEN 0 ELSE Head(b) + 256 * FromLE(Tail(b))

\* the four bytes of the checksum of the gzip trailer (zlib.crc32), as two running
\* sums of 16 bits each: the sum of the bytes and the sum of those sums
\* (the sum of the sums counts the byte at position i once for each position from
\* i on)
RECURSIVE WeightedSum(_, _, _, _)
WeightedSum(b, lo, hi, weighted) ==
    IF lo > hi THEN 0
    ELSE IF lo = hi THEN (IF weighted THEN (Len(b) - lo + 1) * b[lo] ELSE b[lo])
    ELSE LET mid == (lo + hi) \div 2
         IN  WeightedSum(b, lo, mid, weighted) + WeightedSum(b, mid + 1, hi, weighted)
ByteSum(b) == (1 + WeightedSum(b, 1, Len(b), FALSE)) % 65521
SumOfSums(b) == (Len(b) + WeightedSum(b, 1, Len(b), TRUE)) % 65521
Crc32(b) == LE16(ByteSum(b)) \o LE16(SumOfSums(b))

\* the deflate stream of b, as one final stored block: the block header, the
\* length, its complement and the bytes
Deflate(b) == <<1>> \o LE16(Len(b)) \o LE16(65535 - Len(b)) \o b

\* the bytes of b a deflate stream at the head of z decodes to, and what follows it
Inflate(z) ==
    IF Len(z) < 5 \/ z[1] # 1 THEN Raise
    ELSE LET n == FromLE(SubSeq(z, 2, 3))
         IN  IF FromLE(SubSeq(z, 4, 5)) # 65535 - n \/ Len(z) < 5 + n THEN Raise
             ELSE [tag |-> "inflated", b |-> SubSeq(z, 6, 5 + n),
                   rest |-> SubSeq(z, 6 + n, Len(z))]

\* the member header GzipFile writes: magic, deflate, no flags, mtime, level, OS
GzipHeader(mtime) == <<31, 139, 8, 0>> \o LE32(mtime) \o <<2, 255>>

\* a gzip stream read before the GzipFile was closed: the trailer is missing
GzipFileWriteUnclosed(b, mtime) == GzipHeader(mtime) \o Deflate(b)

\* `with gzip.GzipFile(fileobj=out, mode="wb") as gz: gz.write(b)`, then
\* out.getvalue(): header, deflate stream, checksum and size (modulo 2^32, which
\* no size here comes near)
GzipFileWrite(b, mtime) ==
    GzipHeader(mtime) \o Deflate(b) \o Crc32(b) \o LE32(Len(b))

\* gzip.decompress(z): the bytes, or an error when z is not a whole gzip member
GzipDecompress(z) ==
    IF Len(z) < 10 \/ SubSeq(z, 1, 3) # <<31, 139, 8>> \/ z[4] # 0 THEN Raise
    ELSE LET body == Inflate(SubSeq(z, 11, Len(z)))
         IN  IF body = Raise THEN Raise
             ELSE IF Len(body.rest) # 8 THEN Raise
             ELSE IF SubSeq(body.rest, 1, 4) # Crc32(body.b) THEN Raise
             ELSE IF SubSeq(body.rest, 5, 8) # LE32(Len(body.b)) THEN Raise
             ELSE Bytes(body.b)

\* _metrics.py, Metrics.compress(data: str): a UnicodeEncodeError is no IOError and
\* leaves the function as it is
Metrics_compress(data, mtime) ==
    LET encoded == Utf8Encode(data)
    IN  IF encoded = Raise THEN Raise
        ELSE Bytes(GzipFileWrite(encoded.b, mtime))

\* the digit of d in base 16, in lower case
HexDigit(d) == IF d < 10 THEN 48 + d ELSE 87 + d
\* \uXXXX
EscapeU(n) == <<92, 117, HexDigit(n \div 4096), HexDigit((n \div 256) % 16),
                HexDigit((n \div 16) % 16), HexDigit(n % 16)>>
\* json.dumps of one character of a str (ensure_ascii is left at True)
JsonEscapeChar(cp) ==
    IF cp = 34 \/ cp = 92 THEN <<92, cp>>
    ELSE IF 32 <= cp /\ cp <= 126 THEN <<cp>>
    ELSE IF cp < 65536 THEN EscapeU(cp)
    ELSE EscapeU(55296 + ((cp - 65536) \div 1024)) \o EscapeU(56320 + ((cp - 65536) % 1024))
\* json.dumps of a str
JsonString(text) ==
    <<34>> \o Concat([i \in 1..Len(text) |-> JsonEscapeChar(text[i])]) \o <<34>>
\* json.dumps of a dict of strs, given as the sequence of its items
RECURSIVE JsonItems(_)
JsonItems(items) ==
    IF items = <<>> THEN <<>>
    ELSE JsonString(items[1][1]) \o <<58, 32>> \o JsonString(items[1][2])
            \o (IF Len(items) > 1 THEN <<44, 32>> ELSE <<>>) \o JsonItems(Tail(items))
JsonDumps(items) == <<123>> \o JsonItems(items) \o <<125>>

\* _base.py, MetricsBase._compress(data: dict)
MetricsBase_compress(data, mtime) ==
    LET encoded == Utf8Encode(JsonDumps(data))
    IN  IF encoded = Raise THEN Raise
        ELSE Bytes(GzipFileWrite(encoded.b, mtime))

\* the dict the envelope stands for here: {} or {"osName": payload, payload: "A"}
DataOf(text) ==
    IF text = <<>> THEN <<>>
    ELSE << <<(<<111, 115, 78, 97, 109, 101>>), text>>, <<text, (<<65>>)>> >>

\* the times time.time() may return when the header is written
MTimes == {0, 1700000000}

VARIABLES
    payload,     \* the str to report
    gz,          \* per function: what it returned for payload, once it was called
    gunzipped    \* per function: what gzip.decompress made of that

compVars == <<payload, gz, gunzipped>>

CompressFns == {"compress", "_compress"}

\* neither function has been called
NoCompress ==
    /\ payload = <<>>
    /\ gz = [f \in CompressFns |-> Unset]
    /\ gunzipped = [f \in CompressFns |-> Unset]

\* ------------------------------------------------------------------------
\* _metrics.py: Metrics._load_config and the file bstats/config.toml
\* ------------------------------------------------------------------------
\* UUIDs, as their five groups of hexadecimal digits
AllUuids == << <<"0a0a0a0a", "0000", "4000", "8000", "000000000001">>,
               <<"0b0b0b0b", "0000", "4000", "8000", "000000000002">>,
               <<"0c0c0c0c", "0000", "4000", "8000", "000000000003">>,
               <<"0d0d0d0d", "0000", "4000", "8000", "000000000004">> >>
\* the values uuid.uuid4() may return
Uuids == {AllUuids[i] : i \in 1..NumUuids}
\* str(uuid): the groups joined by hyphens
UuidStr(u) == u[1] \o "-" \o u[2] \o "-" \o u[3] \o "-" \o u[4] \o "-" \o u[5]
\* uuid.UUID(text): ValueError when text is not the text of a UUID
UuidFromText(text) ==
    IF \E u \in Uuids : UuidStr(u) = text
    THEN CHOOSE u \in Uuids : UuidStr(u) = text
    ELSE Raise

\* a setdefault that replaces the value of a key that is present
SetDefaultOverwrites(d, k, v) == Put(d, k, v)

\* d.setdefault(k, v)
SetDefault(d, k, v) == IF k \in DOMAIN d THEN d ELSE Put(d, k, v)
\* d.get(k, v)
Get(d, k, v) == IF k \in DOMAIN d THEN d[k] ELSE v

\* the keys of the config file that hold a bool
BoolKeys == {"enabled", "log-failed-requests", "log-sent-data",
             "log-response-status-text"}
\* what the key server-uuid of a config file may hold
UuidTexts == {UuidStr(u) : u \in Uuids} \cup {"not-a-uuid"}
\* the tables a config file may hold: any of the keys, with any value of its type
ConfigTables ==
    UNION {{b @@ u : b \in [ks -> BOOLEAN],
                     u \in {EmptyMap} \cup {("server-uuid" :> x) : x \in UuidTexts}}
           : ks \in SUBSET BoolKeys}
\* config.toml does not exist
Absent == [tag |-> "absent"]
\* config.toml, with or without the comment at its head
ConfigFile(header, table) == [tag |-> "file", header |-> header, table |-> table]
ConfigFiles == {Absent} \cup {ConfigFile(h, d) : h \in BOOLEAN, d \in ConfigTables}

VARIABLES
    config_file,     \* bstats/config.toml
    config_file0,    \* what it was before the first load
    metrics,         \* the fields _load_config set in the last load, or that it raised
    loads,           \* calls of _load_config so far, up to MaxLoads
    writes,          \* how many of them wrote config.toml
    first_load       \* the file and the fields the first load left

confVars == <<config_file, config_file0, metrics, loads, writes, first_load>>

\* lines 140-144: the table of the file, empty when there is none
ReadConfig(file) == IF file = Absent THEN EmptyMap ELSE file.table

\* lines 148-152: the defaults for the keys that are missing
WithDefaults(config, uuid4) ==
    SetDefault(SetDefault(SetDefault(SetDefault(SetDefault(config,
        "enabled", TRUE),
        "server-uuid", UuidStr(uuid4)),
        "log-failed-requests", FALSE),
        "log-sent-data", FALSE),
        "log-response-status-text", FALSE)

\* lines 173-177: the fields, or the ValueError of uuid.UUID
LoadData(config) ==
    LET server_uuid == UuidFromText(config["server-uuid"])
    IN  IF server_uuid = Raise THEN Raise
        ELSE [tag |-> "loaded",
              enabled |-> Get(config, "enabled", TRUE),
              server_uuid |-> server_uuid,
              log_failed_requests |-> Get(config, "log-failed-requests", FALSE),
              log_sent_data |-> Get(config, "log-sent-data", FALSE),
              log_response_status_text |-> Get(config, "log-response-status-text", FALSE)]

\* Metrics._load_config
LoadConfig ==
    /\ loads < MaxLoads
    /\ loads' = loads + 1
    /\ LET config == ReadConfig(config_file)
       IN  IF "server-uuid" \notin DOMAIN config
           THEN \E uuid4 \in Uuids :
                   LET new_config == WithDefaults(config, uuid4)
                   IN  /\ config_file' = ConfigFile(TRUE, new_config)
                       /\ writes' = writes + 1
                       /\ metrics' = LoadData(new_config)
           ELSE /\ metrics' = LoadData(config)
                /\ UNCHANGED <<config_file, writes>>
    /\ first_load' = IF loads = 0
                     THEN [file |-> config_file', metrics |-> metrics']
                     ELSE first_load
    /\ UNCHANGED config_file0

\* no config file is looked at
NoConfig ==
    /\ config_file = Absent
    /\ config_file0 = Absent
    /\ metrics = Unset
    /\ loads = 0
    /\ writes = 0
    /\ first_load = Unset

\* ------------------------------------------------------------------------
\* _base.py: the session (MetricsBase), its scheduler and its submission cycle
\* ------------------------------------------------------------------------
\* an executor with a second worker
MaxWorkersTwo == 1 + 1
\* ScheduledThreadPoolExecutor(max_workers=1)
MaxWorkers == 1
\* a period of 3 minutes
PeriodShort == 60 * 3
\* 60 * 30, the period of the fixed-rate task, in seconds
Period == 60 * 30

AllCharts == <<"c1", "c2", "c3", "c4">>
\* the charts the application may register, by chart_id
Charts == {AllCharts[i] : i \in 1..NumCharts}
\* the type of each of them
ChartType(c) ==
    CASE c = "c1" -> "SimplePie"
      [] c = "c2" -> "AdvancedPie"
      [] c = "c3" -> "SimpleBarChart"
      [] c = "c4" -> "MultiLineChart"

\* what the producer of chart c does when it is polled in a cycle
PollResults(c) ==
    IF ChartType(c) = "SimplePie"
    THEN {Raise, None, Str("42")}
    ELSE {Raise, None, Dict(("a" :> 0)), Dict(("a" :> 0) @@ ("b" :> 2))}

\* random.random() is rnd / RandDenom for rnd < RandDenom; the numerator RandDenom
\* stands for the largest double below 1, with which 3 + random.random() * 3 is
\* rounded to 6.0 while (random.random() * 30) * 60 stays below 1800.0
LargestRandom == RandDenom

\* an initial delay without the three minutes
InitialDelayFromZero(rnd) == ((rnd * 3) * 60) \div RandDenom

\* int((3 + random.random() * 3) * 60)
InitialDelay(rnd) == ((3 * RandDenom + rnd * 3) * 60) \div RandDenom
\* int((random.random() * 30) * 60)
SecondDelay(rnd) ==
    IF rnd = LargestRandom THEN 30 * 60 - 1 ELSE (rnd * 30 * 60) \div RandDenom

\* the two scheduled tasks: the one-shot one and the fixed-rate one
Tasks == {"once", "rate"}

\* what append_platform_data may write into the mapping it is given
PlatformWrites == {EmptyMap,
                   ("osName" :> "Linux") @@ ("service" :> ("id" :> 0))
                        @@ ("serverUUID" :> "y")}
\* what append_service_data may write into the mapping it is given
ServiceWrites == {EmptyMap,
                  ("pluginVersion" :> "1.0") @@ ("id" :> 0) @@ ("customCharts" :> <<>>)}
\* the HTTP status codes the endpoint may answer with
StatusCodes == {102, 200, 204, 304, 404, 500}
\* how _send_data may end: json.dumps, gzip or requests.post raises, or a response
SendOutcomes ==
    {[kind |-> k] : k \in {"json_error", "gzip_error", "post_error"}}
        \cup {[kind |-> "response", status |-> st] : st \in StatusCodes}

\* the logging flags a session may be constructed with
LogFlags == [log_errors : BOOLEAN, log_sent_data : BOOLEAN,
             log_response_status_text : BOOLEAN]

\* every flag off, every flag on
AllOff == [log_errors |-> FALSE, log_sent_data |-> FALSE,
           log_response_status_text |-> FALSE]
AllOn == [log_errors |-> TRUE, log_sent_data |-> TRUE,
          log_response_status_text |-> TRUE]
\* the sessions that differ by log_errors alone
CycleFlags == {f \in LogFlags : ~f.log_sent_data /\ ~f.log_response_status_text}
\* the sessions that log nothing and the ones that log everything
TimingFlags == {AllOff, AllOn}

VARIABLES
    rng,              \* the numerators r of the values r / RandDenom random.random() may return
    flags,            \* self._log_errors, self._log_sent_data, self._log_response_status_text
    constructed,      \* MetricsBase.__init__ has run
    init_enabled,     \* what the property self.enabled returned in __init__
    custom_charts,    \* self._custom_charts
    exec_shutdown,    \* self._executor has been shut down
    tasks,            \* the tasks of self._executor
    now,              \* the clock, in seconds since construction
    cyc,              \* per task: the firing of it that is in progress
    send_ticks,       \* clock ticks spent blocked in requests.post so far
    shutdown_calls,   \* calls of shutdown() so far: 0, 1 or 2 for more than one
    firings           \* firings started so far

sessVars == <<rng, flags, constructed, init_enabled, custom_charts, exec_shutdown,
              tasks, now, cyc, send_ticks, shutdown_calls, firings>>
vars == <<chartVars, compVars, confVars, sessVars>>

\* one more call of the logging collaborator with message m, in the bag of calls
Logged(logs, m) == Put(logs, m, IF m \in DOMAIN logs THEN logs[m] + 1 ELSE 1)

\* a task that was never submitted
\* (last_* and prev_* are the due time and the start time of its last two firings,
\* free_at the time a worker last became free and last_free its value at the last
\* firing, long whether a firing of it took a period or more, last how the last ended)
NoTask == [state |-> "none", due |-> 0, period |-> 0, runs |-> 0,
           last_due |-> 0, last_start |-> 0, prev_due |-> 0, prev_start |-> 0,
           free_at |-> 0, last_free |-> 0, long |-> FALSE, last |-> "none"]

\* no firing in progress
Idle == [pc |-> "idle", platform_data |-> EmptyMap, service_data |-> EmptyMap,
         chart_data |-> <<>>, it_used |-> 0, polled |-> {}, failed |-> {},
         absent |-> {}, calls |-> {}, seen_enabled |-> "unread",
         seen_service |-> "unread", result |-> "none", raised_at |-> "none",
         send |-> "none", sent |-> EmptyMap, status |-> 0,
         error_logs |-> EmptyMap, info_logs |-> EmptyMap,
         platform_written |-> EmptyMap, service_written |-> EmptyMap]

Running == {t \in Tasks : cyc[t].pc # "idle"}
Max(a, b) == IF a >= b THEN a ELSE b
Range(seq) == {seq[i] : i \in 1..Len(seq)}

\* ---- the scheduler (endstone_bstats/_executor.py) ----
\* ScheduledThreadPoolExecutor.submit(task, delay)
ExecSubmit(ts, t, delay) ==
    IF exec_shutdown THEN ts
    ELSE [ts EXCEPT ![t] = [NoTask EXCEPT !.state = "pending", !.due = now + delay]]

\* ScheduledThreadPoolExecutor.submit_at_fixed_rate(task, initial_delay, period)
ExecSubmitAtFixedRate(ts, t, delay, period) ==
    IF exec_shutdown THEN ts
    ELSE [ts EXCEPT ![t] = [NoTask EXCEPT !.state = "pending", !.due = now + delay,
                                          !.period = period]]

\* ScheduledThreadPoolExecutor.shutdown(): pending firings are cancelled,
\* the one in progress is left to finish
ExecShutdown(ts) ==
    [t \in Tasks |-> IF ts[t].state = "pending"
                     THEN [ts[t] EXCEPT !.state = "cancelled"]
                     ELSE ts[t]]

\* a shutdown() that waits until no work is in flight: it returns to a caller that
\* is not itself that work
ExecShutdownWaits(caller) == caller \notin Running

\* ScheduledThreadPoolExecutor.shutdown() returns to its caller, an application
\* thread or the worker in firing t, without waiting for the work in flight
ExecShutdownReturns(caller) == TRUE

\* a pending task is due and a worker is free to run it
Fireable(t) ==
    /\ tasks[t].state = "pending"
    /\ tasks[t].due <= now
    /\ ~exec_shutdown
    /\ Cardinality(Running) < MaxWorkers
    /\ tasks[t].runs < MaxRateRuns

\* the due time a fixed-rate task gets after a firing: spaced from the schedule
NextDue(task, finished_at) == task.due + task.period

\* ---- MetricsBase ----
\* _start_submitting: the two tasks are handed to the executor
StartSubmitting(ts, rnd1, rnd2) ==
    LET initial_delay == InitialDelay(rnd1)
        second_delay  == SecondDelay(rnd2)
    IN  ExecSubmitAtFixedRate(ExecSubmit(ts, "once", initial_delay),
                              "rate", initial_delay + second_delay, Period)

\* a constructor that schedules whatever self.enabled says
StartsAlways(e) == TRUE

\* `if self.enabled:` of __init__
StartsAtInit(e) == e

\* __init__
MetricsBaseInit ==
    /\ ~constructed
    /\ constructed' = TRUE
    /\ custom_charts' = {}
    /\ \E e \in BOOLEAN :
          /\ init_enabled' = IF e THEN "true" ELSE "false"
          /\ \E rnd1, rnd2 \in rng :
                tasks' = IF StartsAtInit(e) THEN StartSubmitting(tasks, rnd1, rnd2)
                         ELSE tasks
    /\ UNCHANGED <<rng, flags, exec_shutdown, now, cyc, send_ticks, shutdown_calls,
                   firings>>

\* what a call of shutdown() is recorded as
NoteShutdown ==
    shutdown_calls' = IF shutdown_calls < 2 THEN shutdown_calls + 1 ELSE 2

\* a shutdown() that leaves the executor alone
DoShutdownForgets ==
    /\ NoteShutdown
    /\ UNCHANGED <<exec_shutdown, tasks>>

\* shutdown(): self._executor.shutdown()
DoShutdown ==
    /\ NoteShutdown
    /\ exec_shutdown' = TRUE
    /\ tasks' = ExecShutdown(tasks)

\* the application calls shutdown()
Shutdown ==
    /\ constructed
    /\ DoShutdown
    /\ UNCHANGED <<rng, flags, constructed, init_enabled, custom_charts, now, send_ticks, cyc, firings>>

\* add_custom_chart(chart), from an application thread
AddCustomChart(c) ==
    /\ constructed
    /\ c \notin custom_charts
    /\ custom_charts' = custom_charts \cup {c}
    /\ UNCHANGED <<rng, flags, constructed, init_enabled, exec_shutdown, tasks, now, send_ticks, cyc,
                   shutdown_calls, firings>>

\* ---- the worker ----
\* the executor starts the firing of task t that is due, the earliest first
Fire(t) ==
    /\ Fireable(t)
    /\ \A u \in Tasks : tasks[u].state = "pending" => tasks[t].due <= tasks[u].due
    /\ cyc' = [cyc EXCEPT ![t] = [Idle EXCEPT !.pc = "check"]]
    /\ tasks' = [tasks EXCEPT ![t] =
                    [@ EXCEPT !.state = "running", !.runs = @ + 1,
                              !.prev_due = tasks[t].last_due,
                              !.prev_start = tasks[t].last_start,
                              !.last_due = tasks[t].due, !.last_start = now,
                              !.last_free = tasks[t].free_at]]
    /\ firings' = firings + 1
    /\ UNCHANGED <<rng, flags, constructed, init_enabled, custom_charts, exec_shutdown, now, send_ticks,
                   shutdown_calls>>

\* the firing ends here, the task function returning normally
Returned(cy) == [cy EXCEPT !.pc = "end", !.result = "returned"]
\* the firing ends here, an exception leaving the task function
Raised(cy, at) == [cy EXCEPT !.pc = "end", !.result = "raised", !.raised_at = at]

\* where a firing that called shutdown() goes on: it returns, or it is stuck in
\* the call for ever
AfterShutdown(t, cy) ==
    IF ExecShutdownReturns(t) THEN Returned(cy) ELSE [cy EXCEPT !.pc = "blocked"]

\* a submit_task that returns when enabled is false and leaves the schedule alone
CheckEnabledKeepsSchedule(t) ==
    /\ cyc[t].pc = "check"
    /\ \/ \E enabled \in BOOLEAN :
          IF ~enabled
          THEN /\ cyc' = [cyc EXCEPT ![t] = Returned([@ EXCEPT !.seen_enabled = "false"])]
               /\ UNCHANGED <<exec_shutdown, tasks, shutdown_calls>>
          ELSE /\ cyc' = [cyc EXCEPT ![t] = [@ EXCEPT !.pc = "check_service",
                                                      !.seen_enabled = "true"]]
               /\ UNCHANGED <<exec_shutdown, tasks, shutdown_calls>>
       \/ /\ cyc' = [cyc EXCEPT ![t] = Raised([@ EXCEPT !.seen_enabled = "raised"], "enabled")]
          /\ UNCHANGED <<exec_shutdown, tasks, shutdown_calls>>
    /\ UNCHANGED <<rng, flags, constructed, init_enabled, custom_charts, now, send_ticks, firings>>

\* submit_task: `if not self.enabled` (the left operand of the `or`); the property
\* returns a bool or raises
CheckEnabled(t) ==
    /\ cyc[t].pc = "check"
    /\ \/ \E enabled \in BOOLEAN :
          IF ~enabled
          THEN /\ DoShutdown
               /\ cyc' = [cyc EXCEPT ![t] =
                              AfterShutdown(t, [@ EXCEPT !.seen_enabled = "false"])]
          ELSE /\ cyc' = [cyc EXCEPT ![t] = [@ EXCEPT !.pc = "check_service",
                                                      !.seen_enabled = "true"]]
               /\ UNCHANGED <<exec_shutdown, tasks, shutdown_calls>>
       \/ /\ cyc' = [cyc EXCEPT ![t] = Raised([@ EXCEPT !.seen_enabled = "raised"], "enabled")]
          /\ UNCHANGED <<exec_shutdown, tasks, shutdown_calls>>
    /\ UNCHANGED <<rng, flags, constructed, init_enabled, custom_charts, now, send_ticks, firings>>

\* submit_task without the test of service_enabled
CheckServiceEnabledSkipped(t) ==
    /\ cyc[t].pc = "check_service"
    /\ \E service_enabled \in BOOLEAN :
          cyc' = [cyc EXCEPT ![t] =
                     [@ EXCEPT !.pc = "platform",
                               !.seen_service = IF service_enabled THEN "true" ELSE "false"]]
    /\ UNCHANGED <<rng, flags, constructed, init_enabled, custom_charts, now, send_ticks, firings,
                   exec_shutdown, tasks, shutdown_calls>>

\* submit_task: `or not self.service_enabled`, then self.submit_task(self._submit_data);
\* the property returns a bool or raises
CheckServiceEnabled(t) ==
    /\ cyc[t].pc = "check_service"
    /\ \/ \E service_enabled \in BOOLEAN :
          IF ~service_enabled
          THEN /\ DoShutdown
               /\ cyc' = [cyc EXCEPT ![t] =
                              AfterShutdown(t, [@ EXCEPT !.seen_service = "false"])]
          ELSE /\ cyc' = [cyc EXCEPT ![t] = [@ EXCEPT !.pc = "platform",
                                                      !.seen_service = "true"]]
               /\ UNCHANGED <<exec_shutdown, tasks, shutdown_calls>>
       \/ /\ cyc' = [cyc EXCEPT ![t] =
                        Raised([@ EXCEPT !.seen_service = "raised"], "service_enabled")]
          /\ UNCHANGED <<exec_shutdown, tasks, shutdown_calls>>
    /\ UNCHANGED <<rng, flags, constructed, init_enabled, custom_charts, now, send_ticks, firings>>

\* ---- _submit_data ----
\* CustomChart._get_request_json_object (endstone_bstats/_charts/custom_chart.py):
\* the chart's payload with its id, or None when the chart has nothing to report
GetRequestJsonObject(c, produced_value) ==
    LET data == get_chart_data(ChartType(c), produced_value)
    IN  IF data = None THEN None
        ELSE [tag |-> "chart", chartId |-> c, data |-> data.d]

\* append_platform_data(platform_data) on the empty mapping
AppendPlatformData(t) ==
    /\ cyc[t].pc = "platform"
    /\ \/ \E w \in PlatformWrites :
             cyc' = [cyc EXCEPT ![t] =
                        [@ EXCEPT !.pc = "service", !.platform_data = w,
                                  !.platform_written = w,
                                  !.calls = @ \cup {"append_platform_data"}]]
       \/ cyc' = [cyc EXCEPT ![t] =
                     Raised([@ EXCEPT !.calls = @ \cup {"append_platform_data"}], "platform")]
    /\ UNCHANGED <<rng, flags, constructed, init_enabled, custom_charts, exec_shutdown,
                   tasks, now, send_ticks, shutdown_calls, firings>>

\* append_service_data(service_data) on the empty mapping; then the loop over
\* self._custom_charts begins: the set iterator notes the size of the set
AppendServiceData(t) ==
    /\ cyc[t].pc = "service"
    /\ \/ \E w \in ServiceWrites :
             cyc' = [cyc EXCEPT ![t] =
                        [@ EXCEPT !.pc = "charts", !.service_data = w,
                                  !.service_written = w,
                                  !.it_used = Cardinality(custom_charts),
                                  !.calls = @ \cup {"append_service_data"}]]
       \/ cyc' = [cyc EXCEPT ![t] =
                     Raised([@ EXCEPT !.calls = @ \cup {"append_service_data"}], "service")]
    /\ UNCHANGED <<rng, flags, constructed, init_enabled, custom_charts, exec_shutdown,
                   tasks, now, send_ticks, shutdown_calls, firings>>

\* "Failed to get data for custom chart with id <chart_id>"
ErrorMessage(chart_id) == <<"Failed to get data for custom chart with id", chart_id>>
\* "Could not submit bStats metrics data"
SubmitErrorMessage == <<"Could not submit bStats metrics data">>
\* "Sent bStats metrics data: ..." and "Sent data to bStats and received response: ..."
SentDataMessage == <<"Sent bStats metrics data">>
ResponseMessage == <<"Sent data to bStats and received response">>

\* the body of the loop without its try / except: the failure leaves the cycle
PollChartNoCatch(cy, c, produced_value) ==
    LET polled == [cy EXCEPT !.polled = @ \cup {c}, !.calls = @ \cup {c}]
    IN  IF produced_value = Raise
        THEN Raised([polled EXCEPT !.failed = @ \cup {c}], "chart")
        ELSE LET chart_json == GetRequestJsonObject(c, produced_value)
             IN  IF chart_json # None
                 THEN [polled EXCEPT !.chart_data = Append(@, chart_json)]
                 ELSE [polled EXCEPT !.absent = @ \cup {c}]

\* a loop body that logs the failure of a chart whatever self._log_errors is
PollChartBodyAlwaysLogs(log_errors, cy, c, produced_value) ==
    LET polled == [cy EXCEPT !.polled = @ \cup {c}, !.calls = @ \cup {c}]
    IN  IF produced_value = Raise
        THEN [polled EXCEPT !.failed = @ \cup {c},
                            !.error_logs = Logged(@, ErrorMessage(c))]
        ELSE LET chart_json == GetRequestJsonObject(c, produced_value)
             IN  IF chart_json # None
                 THEN [polled EXCEPT !.chart_data = Append(@, chart_json)]
                 ELSE [polled EXCEPT !.absent = @ \cup {c}]

\* the body of the loop for chart c, whose producer does produced_value, in a
\* session whose self._log_errors is log_errors
PollChartBody(log_errors, cy, c, produced_value) ==
    LET polled == [cy EXCEPT !.polled = @ \cup {c}, !.calls = @ \cup {c}]
    IN  IF produced_value = Raise
        THEN IF log_errors
             THEN [polled EXCEPT !.failed = @ \cup {c},
                                 !.error_logs = Logged(@, ErrorMessage(c))]
             ELSE [polled EXCEPT !.failed = @ \cup {c}]
        ELSE LET chart_json == GetRequestJsonObject(c, produced_value)
             IN  IF chart_json # None
                 THEN [polled EXCEPT !.chart_data = Append(@, chart_json)]
                 ELSE [polled EXCEPT !.absent = @ \cup {c}]

\* the body of the loop in this session
PollChart(cy, c, produced_value) == PollChartBody(flags.log_errors, cy, c, produced_value)

\* the service id and the server UUID the session was constructed with, the UUID
\* as its five groups of hexadecimal digits
ServiceId == 1234
ServerUUID == <<"00000000", "0000", "0000", "0000", "000000000001">>

\* an envelope in which the keys the accessors wrote are kept
AssembleKeepsWritten(cy) ==
    LET service_data  == SetDefault(SetDefault(cy.service_data, "id", ServiceId),
                                    "customCharts", cy.chart_data)
        platform_data == SetDefault(SetDefault(cy.platform_data, "service", service_data),
                                    "serverUUID", UuidStr(ServerUUID))
    IN  [cy EXCEPT !.pc = "send", !.service_data = service_data,
                   !.platform_data = platform_data]

\* the envelope: lines 180-183
Assemble(cy) ==
    LET service_data  == Put(Put(cy.service_data, "id", ServiceId),
                             "customCharts", cy.chart_data)
        platform_data == Put(Put(cy.platform_data, "service", service_data),
                             "serverUUID", UuidStr(ServerUUID))
    IN  [cy EXCEPT !.pc = "send", !.service_data = service_data,
                   !.platform_data = platform_data]

\* one step of `for chart in self._custom_charts`: the iterator raises RuntimeError
\* when the set changed size, gives the next chart, or is exhausted
IterNext(t) ==
    /\ cyc[t].pc = "charts"
    /\ IF Cardinality(custom_charts) # cyc[t].it_used
       THEN cyc' = [cyc EXCEPT ![t] = Raised(@, "iterate")]
       ELSE IF custom_charts \ cyc[t].polled # {}
       THEN \E c \in custom_charts \ cyc[t].polled :
               \E produced_value \in PollResults(c) :
                  cyc' = [cyc EXCEPT ![t] = PollChart(@, c, produced_value)]
       ELSE cyc' = [cyc EXCEPT ![t] = Assemble(@)]
    /\ UNCHANGED <<rng, flags, constructed, init_enabled, custom_charts, exec_shutdown,
                   tasks, now, send_ticks, shutdown_calls, firings>>

\* response.raise_for_status(): HTTPError for a 4xx or 5xx status
RaisesForStatus(status) == 400 <= status /\ status < 600

\* _send_data raises
SendFails(o) == o.kind # "response" \/ RaisesForStatus(o.status)

\* _send_data(data) up to the point where it raises or returns: the payload is
\* logged first, the request is made once the payload is compressed, and the
\* response is logged when raise_for_status() has not raised
SendDataCalled(fl, cy, o) ==
    [cy EXCEPT !.calls = @ \cup {"send"},
               !.sent = IF o.kind \in {"post_error", "response"}
                        THEN cy.platform_data ELSE @,
               !.status = IF o.kind = "response" THEN o.status ELSE @,
               !.info_logs =
                   LET sent_logged == IF fl.log_sent_data
                                      THEN Logged(@, SentDataMessage) ELSE @
                   IN  IF fl.log_response_status_text /\ ~SendFails(o)
                       THEN Logged(sent_logged, ResponseMessage)
                       ELSE sent_logged]

\* lines 185-189 without the try / except
SendDataNoCatch(cy, o) ==
    LET called == SendDataCalled(flags, cy, o)
    IN  IF SendFails(o)
        THEN Raised([called EXCEPT !.send = "failed"], "send")
        ELSE Returned([called EXCEPT !.send = "ok"])

\* lines 185-189: self._send_data(platform_data) inside try / except Exception,
\* in a session whose flags are fl
SendDataBody(fl, cy, o) ==
    LET called == SendDataCalled(fl, cy, o)
    IN  IF SendFails(o)
        THEN IF fl.log_errors
             THEN Returned([called EXCEPT !.send = "failed",
                                          !.error_logs = Logged(@, SubmitErrorMessage)])
             ELSE Returned([called EXCEPT !.send = "failed"])
        ELSE Returned([called EXCEPT !.send = "ok"])

\* lines 185-189 in this session
SendData(cy, o) == SendDataBody(flags, cy, o)

\* the cycle sends its envelope
Send(t) ==
    /\ cyc[t].pc = "send"
    /\ \E o \in SendOutcomes : cyc' = [cyc EXCEPT ![t] = SendData(@, o)]
    /\ UNCHANGED <<rng, flags, constructed, init_enabled, custom_charts, exec_shutdown,
                   tasks, now, send_ticks, shutdown_calls, firings>>

\* requests.post blocks the worker while the clock runs
SendTick(t) ==
    /\ cyc[t].pc = "send"
    /\ send_ticks < MaxSendTicks
    /\ \A u \in Tasks : ~Fireable(u)
    /\ now' = now + SendQuantum
    /\ send_ticks' = send_ticks + 1
    /\ UNCHANGED <<rng, flags, constructed, init_enabled, custom_charts, exec_shutdown,
                   tasks, cyc, shutdown_calls, firings>>

\* how a firing ended, as the executor's record of the task keeps it
Summary(cy) ==
    IF cy.result = "raised" THEN "raised"
    ELSE IF cy.send = "failed" THEN "send_failed"
    ELSE IF cy.send = "ok" THEN "sent"
    ELSE "stopped"

\* the task function is back in the executor: a fixed-rate task is queued again
\* unless the executor was shut down, whether it returned or raised
Finish(t) ==
    /\ cyc[t].pc = "end"
    /\ tasks' = [u \in Tasks |->
                    IF u # t THEN [tasks[u] EXCEPT !.free_at = now]
                    ELSE [tasks[t] EXCEPT
                            !.state = IF tasks[t].period > 0 /\ ~exec_shutdown
                                      THEN "pending" ELSE "done",
                            !.due = IF tasks[t].period > 0 /\ ~exec_shutdown
                                    THEN NextDue(tasks[t], now) ELSE @,
                            !.free_at = now,
                            !.long = @ \/ now - tasks[t].last_start >= Period,
                            !.last = Summary(cyc[t])]]
    /\ cyc' = [cyc EXCEPT ![t] = Idle]
    /\ UNCHANGED <<rng, flags, constructed, init_enabled, custom_charts, exec_shutdown,
                   now, send_ticks, shutdown_calls, firings>>

\* the task is in the timer queue, or was when the executor was shut down
Queued(t) == tasks[t].state \in {"pending", "cancelled"} /\ tasks[t].runs < MaxRateRuns

\* nothing is due and no cycle runs: the clock runs to the next time a task is,
\* or was to be, due
AdvanceToDue ==
    /\ Running = {}
    /\ \A u \in Tasks : ~Fireable(u)
    /\ \E t \in Tasks :
          /\ Queued(t)
          /\ tasks[t].due > now
          /\ \A u \in Tasks : (Queued(u) /\ tasks[u].due > now)
                                  => tasks[t].due <= tasks[u].due
          /\ now' = tasks[t].due
    /\ UNCHANGED <<rng, flags, constructed, init_enabled, custom_charts, exec_shutdown,
                   tasks, cyc, send_ticks, shutdown_calls, firings>>

\* before MetricsBase.__init__
NoSession ==
    /\ constructed = FALSE
    /\ init_enabled = "unread"
    /\ custom_charts = {}
    /\ exec_shutdown = FALSE
    /\ tasks = [t \in Tasks |-> NoTask]
    /\ now = 0
    /\ cyc = [t \in Tasks |-> Idle]
    /\ send_ticks = 0
    /\ shutdown_calls = 0
    /\ firings = 0

\* the values random.random() is drawn from
RandomNumerators == 0..(RandDenom - 1)

Init ==
    /\ produced = None
    /\ chart_out = [ty \in ChartTypes |-> Unset]
    /\ NoCompress
    /\ rng = RandomNumerators
    /\ flags \in TimingFlags
    /\ NoConfig
    /\ NoSession

Next ==
    \/ MetricsBaseInit /\ UNCHANGED <<chartVars, compVars, confVars>>
    \/ Shutdown /\ UNCHANGED <<chartVars, compVars, confVars>>
    \/ AdvanceToDue /\ UNCHANGED <<chartVars, compVars, confVars>>
    \/ \E c \in Charts : AddCustomChart(c) /\ UNCHANGED <<chartVars, compVars, confVars>>
    \/ \E t \in Tasks : Fire(t) /\ UNCHANGED <<chartVars, compVars, confVars>>
    \/ \E t \in Tasks : CheckEnabled(t) /\ UNCHANGED <<chartVars, compVars, confVars>>
    \/ \E t \in Tasks : CheckServiceEnabled(t) /\ UNCHANGED <<chartVars, compVars, confVars>>
    \/ \E t \in Tasks : AppendPlatformData(t) /\ UNCHANGED <<chartVars, compVars, confVars>>
    \/ \E t \in Tasks : AppendServiceData(t) /\ UNCHANGED <<chartVars, compVars, confVars>>
    \/ \E t \in Tasks : IterNext(t) /\ UNCHANGED <<chartVars, compVars, confVars>>
    \/ \E t \in Tasks : Send(t) /\ UNCHANGED <<chartVars, compVars, confVars>>
    \/ \E t \in Tasks : SendTick(t) /\ UNCHANGED <<chartVars, compVars, confVars>>
    \/ \E t \in Tasks : Finish(t) /\ UNCHANGED <<chartVars, compVars, confVars>>

Spec == Init /\ [][Next]_vars

\* The session with a network that answers at once and the shortest delays: the
\* clock stands still during a cycle, so that the cycles differ by what they
\* gather, not by when they run.
CycleNext ==
    \/ MetricsBaseInit /\ UNCHANGED <<chartVars, compVars, confVars>>
    \/ Shutdown /\ UNCHANGED <<chartVars, compVars, confVars>>
    \/ AdvanceToDue /\ UNCHANGED <<chartVars, compVars, confVars>>
    \/ \E c \in Charts : AddCustomChart(c) /\ UNCHANGED <<chartVars, compVars, confVars>>
    \/ \E t \in Tasks : Fire(t) /\ UNCHANGED <<chartVars, compVars, confVars>>
    \/ \E t \in Tasks : CheckEnabled(t) /\ UNCHANGED <<chartVars, compVars, confVars>>
    \/ \E t \in Tasks : CheckServiceEnabled(t) /\ UNCHANGED <<chartVars, compVars, confVars>>
    \/ \E t \in Tasks : AppendPlatformData(t) /\ UNCHANGED <<chartVars, compVars, confVars>>
    \/ \E t \in Tasks : AppendServiceData(t) /\ UNCHANGED <<chartVars, compVars, confVars>>
    \/ \E t \in Tasks : IterNext(t) /\ UNCHANGED <<chartVars, compVars, confVars>>
    \/ \E t \in Tasks : Send(t) /\ UNCHANGED <<chartVars, compVars, confVars>>
    \/ \E t \in Tasks : Finish(t) /\ UNCHANGED <<chartVars, compVars, confVars>>

\* random.random() returns 0: both tasks get their shortest delay
CycleInit ==
    /\ produced = None
    /\ chart_out = [ty \in ChartTypes |-> Unset]
    /\ NoCompress
    /\ flags \in CycleFlags
    /\ rng = {0}
    /\ NoConfig
    /\ NoSession

CycleSpec == CycleInit /\ [][CycleNext]_vars

\* The session of an application that registers no chart: the firings differ by
\* when they run and by how long the network keeps the worker.
TimingNext ==
    \/ MetricsBaseInit /\ UNCHANGED <<chartVars, compVars, confVars>>
    \/ Shutdown /\ UNCHANGED <<chartVars, compVars, confVars>>
    \/ AdvanceToDue /\ UNCHANGED <<chartVars, compVars, confVars>>
    \/ \E t \in Tasks : Fire(t) /\ UNCHANGED <<chartVars, compVars, confVars>>
    \/ \E t \in Tasks : CheckEnabled(t) /\ UNCHANGED <<chartVars, compVars, confVars>>
    \/ \E t \in Tasks : CheckServiceEnabled(t) /\ UNCHANGED <<chartVars, compVars, confVars>>
    \/ \E t \in Tasks : AppendPlatformData(t) /\ UNCHANGED <<chartVars, compVars, confVars>>
    \/ \E t \in Tasks : AppendServiceData(t) /\ UNCHANGED <<chartVars, compVars, confVars>>
    \/ \E t \in Tasks : IterNext(t) /\ UNCHANGED <<chartVars, compVars, confVars>>
    \/ \E t \in Tasks : Send(t) /\ UNCHANGED <<chartVars, compVars, confVars>>
    \/ \E t \in Tasks : SendTick(t) /\ UNCHANGED <<chartVars, compVars, confVars>>
    \/ \E t \in Tasks : Finish(t) /\ UNCHANGED <<chartVars, compVars, confVars>>

TimingSpec == Init /\ [][TimingNext]_vars

\* The start of a session alone: it is constructed with any flags and any value
\* random.random() can return, the largest one included, and the clock runs to the
\* times its tasks are due; no firing is followed.
StartInit ==
    /\ produced = None
    /\ chart_out = [ty \in ChartTypes |-> Unset]
    /\ NoCompress
    /\ rng = RandomNumerators \cup {LargestRandom}
    /\ flags \in LogFlags
    /\ NoConfig
    /\ NoSession

StartNext ==
    \/ MetricsBaseInit /\ UNCHANGED <<chartVars, compVars, confVars>>
    \/ Shutdown /\ UNCHANGED <<chartVars, compVars, confVars>>
    \/ AdvanceToDue /\ UNCHANGED <<chartVars, compVars, confVars>>

StartSpec == StartInit /\ [][StartNext]_vars

\* The config file alone: there is any file or none, and _load_config is called
\* again and again, as each Metrics of the server does in its constructor.
ConfigInit ==
    /\ produced = None
    /\ chart_out = [ty \in ChartTypes |-> Unset]
    /\ NoCompress
    /\ config_file \in ConfigFiles
    /\ config_file0 = config_file
    /\ metrics = Unset
    /\ loads = 0
    /\ writes = 0
    /\ first_load = Unset
    /\ rng = RandomNumerators
    /\ flags = AllOff
    /\ NoSession

ConfigNext ==
    \/ LoadConfig /\ UNCHANGED <<chartVars, compVars, sessVars>>

ConfigSpec == ConfigInit /\ [][ConfigNext]_vars

\* The chart types alone: a producer result is drawn, and each chart type that takes
\* such a result is asked for its data; no session is constructed.
ChartInit ==
    /\ produced \in StrResults \cup MapResults
    /\ chart_out = [ty \in ChartTypes |-> Unset]
    /\ NoCompress
    /\ rng = RandomNumerators
    /\ flags = AllOff
    /\ NoConfig
    /\ NoSession

\* a chart of type ty is asked for its data
CallGetChartData(ty) ==
    /\ chart_out[ty] = Unset
    /\ produced \in ProducerResults(ty)
    /\ chart_out' = [chart_out EXCEPT ![ty] = get_chart_data(ty, produced)]
    /\ UNCHANGED produced

ChartNext ==
    \/ CallGetChartData("SimplePie") /\ UNCHANGED <<compVars, confVars, sessVars>>
    \/ CallGetChartData("PieSimplePie") /\ UNCHANGED <<compVars, confVars, sessVars>>
    \/ CallGetChartData("AdvancedPie") /\ UNCHANGED <<compVars, confVars, sessVars>>
    \/ CallGetChartData("MultiLineChart") /\ UNCHANGED <<compVars, confVars, sessVars>>
    \/ CallGetChartData("SimpleBarChart") /\ UNCHANGED <<compVars, confVars, sessVars>>

ChartSpec == ChartInit /\ [][ChartNext]_vars

\* The compression functions alone: a str is drawn, each function is called with
\* it (Metrics.compress with the str, MetricsBase._compress with a dict that holds
\* it), and what it returned is decompressed.
CompressInit ==
    /\ produced = None
    /\ chart_out = [ty \in ChartTypes |-> Unset]
    /\ payload \in Texts
    /\ gz = [f \in CompressFns |-> Unset]
    /\ gunzipped = [f \in CompressFns |-> Unset]
    /\ rng = RandomNumerators
    /\ flags = AllOff
    /\ NoConfig
    /\ NoSession

\* Metrics.compress(payload)
CallCompress ==
    /\ gz["compress"] = Unset
    /\ \E mtime \in MTimes :
          gz' = [gz EXCEPT !["compress"] = Metrics_compress(payload, mtime)]
    /\ UNCHANGED <<payload, gunzipped>>

\* MetricsBase._compress(data)
CallUnderscoreCompress ==
    /\ gz["_compress"] = Unset
    /\ \E mtime \in MTimes :
          gz' = [gz EXCEPT !["_compress"] = MetricsBase_compress(DataOf(payload), mtime)]
    /\ UNCHANGED <<payload, gunzipped>>

\* gzip.decompress of the bytes function f returned
CallDecompress(f) ==
    /\ gz[f] \notin {Unset, Raise}
    /\ gunzipped[f] = Unset
    /\ gunzipped' = [gunzipped EXCEPT ![f] = GzipDecompress(gz[f].b)]
    /\ UNCHANGED <<payload, gz>>

CompressNext ==
    \/ CallCompress /\ UNCHANGED <<chartVars, confVars, sessVars>>
    \/ CallUnderscoreCompress /\ UNCHANGED <<chartVars, confVars, sessVars>>
    \/ \E f \in CompressFns : CallDecompress(f) /\ UNCHANGED <<chartVars, confVars, sessVars>>

CompressSpec == CompressInit /\ [][CompressNext]_vars

\* ------------------------------------------------------------------------
\* Properties
\* ------------------------------------------------------------------------
\* the ids of the charts whose payload is in the list chart_data
ChartIds(chart_data) == {chart_data[i].chartId : i \in 1..Len(chart_data)}
\* the loop over the charts of the cycle has run to its end
LoopDone(cy) == cy.pc = "send" \/ (cy.pc = "end" /\ cy.send # "none")

\* C1: once shutdown() has been called no firing starts any more, however the clock
\* runs on, and a further call of shutdown() leaves the executor and its tasks as
\* they are.
C1_ShutdownStopsFirings ==
    [][shutdown_calls >= 1 =>
          /\ firings' = firings
          /\ (shutdown_calls' # shutdown_calls =>
                 tasks' = tasks /\ exec_shutdown' = exec_shutdown)]_vars

\* C1 happens: shutdown() was called twice, and the clock has reached the due time
\* of a firing that was pending
C1_Witness ==
    /\ shutdown_calls = 2
    /\ \E t \in Tasks : tasks[t].state = "cancelled" /\ now >= tasks[t].due /\ now > 0

\* C2: when self.enabled is false in __init__, neither task is handed to the
\* executor and no firing ever starts.
C2_DisabledSchedulesNothing ==
    init_enabled = "false" =>
        /\ \A t \in Tasks : tasks[t].state = "none" /\ cyc[t].pc = "idle"
        /\ firings = 0

\* C2 happens: a session constructed with enabled false, later shut down
C2_Witness == constructed /\ init_enabled = "false" /\ shutdown_calls >= 1

\* C3: no exception of a chart producer leaves the cycle; the charts in the payload
\* are the polled ones that neither raised nor returned nothing, and when the loop
\* is done they are all in service.customCharts of the envelope.
C3_ChartFailuresIsolated ==
    \A t \in Tasks :
        /\ cyc[t].raised_at # "chart"
        /\ ChartIds(cyc[t].chart_data) = cyc[t].polled \ (cyc[t].failed \cup cyc[t].absent)
        /\ cyc[t].pc = "send" =>
              /\ Cardinality(cyc[t].polled) = cyc[t].it_used
              /\ cyc[t].platform_data["service"]["customCharts"] = cyc[t].chart_data

\* C3 happens: a cycle is about to send after one chart raised and another one
\* gave its payload
C3_Witness ==
    \E t \in Tasks :
        /\ cyc[t].pc = "send"
        /\ cyc[t].failed # {}
        /\ Len(cyc[t].chart_data) >= 1

\* C4: a cycle whose send failed returned normally, and unless shutdown() was
\* called the fixed-rate task is queued again (or running) afterwards.
C4_SendFailureCaught ==
    /\ \A t \in Tasks : cyc[t].send = "failed" =>
           cyc[t].pc = "end" /\ cyc[t].result = "returned"
    /\ \A t \in Tasks : (tasks[t].last = "send_failed" /\ shutdown_calls = 0) =>
           tasks["rate"].state \in {"pending", "running"}

\* C4 happens: the fixed-rate task runs a cycle after its previous one failed to send
C4_Witness ==
    /\ tasks["rate"].last = "send_failed"
    /\ tasks["rate"].state = "running"
    /\ cyc["rate"].pc = "send"

\* C5: a firing that saw enabled or service_enabled false has called shutdown() and
\* has ended without calling an accessor, a chart or the transport; a firing that
\* called any of them saw both true before.
C5_DisabledFiringStops ==
    \A t \in Tasks :
        /\ (cyc[t].seen_enabled = "false" \/ cyc[t].seen_service = "false") =>
              /\ cyc[t].pc = "end" /\ cyc[t].result = "returned"
              /\ cyc[t].calls = {}
              /\ exec_shutdown /\ shutdown_calls >= 1
        /\ cyc[t].calls # {} =>
              cyc[t].seen_enabled = "true" /\ cyc[t].seen_service = "true"

\* C5 happens: a firing saw enabled true and service_enabled false
C5_Witness ==
    \E t \in Tasks : cyc[t].seen_enabled = "true" /\ cyc[t].seen_service = "false"

\* C6: at most one firing is in progress at any time, and a task that is due while
\* a cycle runs stays queued until that cycle is over.
C6_OneCycleAtATime ==
    /\ Cardinality(Running) <= 1
    /\ \A t \in Tasks : tasks[t].runs >= 1 => tasks[t].last_start >= tasks[t].last_free

\* C6 happens: a firing started after its due time, when the cycle that ran past
\* that time was over
C6_Witness ==
    \E t \in Tasks :
        /\ tasks[t].runs >= 1
        /\ tasks[t].last_start > tasks[t].last_due
        /\ tasks[t].last_start = tasks[t].last_free

\* C7: adding a chart while the worker iterates the registry makes no cycle fail,
\* and a cycle whose loop is over has polled every chart that was registered when
\* the loop began.
C7_AddDuringCycleIsSafe ==
    \A t \in Tasks :
        /\ cyc[t].raised_at # "iterate"
        /\ LoopDone(cyc[t]) => Cardinality(cyc[t].polled) = cyc[t].it_used

C9_SimplePie ==
    \A ty \in {"SimplePie", "PieSimplePie"} :
        chart_out[ty] # Unset =>
            IF produced.tag = "none" \/ (produced.tag = "str" /\ produced.s = "")
            THEN chart_out[ty] = None
            ELSE /\ chart_out[ty].tag = "dict"
                 /\ DOMAIN chart_out[ty].d = {"value"}
                 /\ chart_out[ty].d["value"] = produced.s

\* C9 happens: both copies were asked with a producer that returned ""
C9_Witness ==
    /\ produced = Str("")
    /\ chart_out["SimplePie"] = None
    /\ chart_out["PieSimplePie"] = None

\* the keys of mapping m whose value is not 0
NonZeroKeys(m) == {k \in DOMAIN m : m[k] # 0}

\* C10: AdvancedPie and MultiLineChart return None when the producer returned None
\* or a mapping without a non-zero value, and otherwise {"values": m'} with m' the
\* producer's mapping restricted to its non-zero entries; they agree on every input.
C10_ZeroEntriesDropped ==
    /\ \A ty \in {"AdvancedPie", "MultiLineChart"} :
          chart_out[ty] # Unset =>
              IF produced.tag = "none" \/ NonZeroKeys(produced.d) = {}
              THEN chart_out[ty] = None
              ELSE /\ chart_out[ty].tag = "dict"
                   /\ DOMAIN chart_out[ty].d = {"values"}
                   /\ DOMAIN chart_out[ty].d["values"] = NonZeroKeys(produced.d)
                   /\ \A k \in NonZeroKeys(produced.d) :
                         chart_out[ty].d["values"][k] = produced.d[k]
    /\ (chart_out["AdvancedPie"] # Unset /\ chart_out["MultiLineChart"] # Unset) =>
          chart_out["AdvancedPie"] = chart_out["MultiLineChart"]

\* C10 happens: both were asked with a mapping that has a zero entry, a negative
\* one and a positive one
C10_Witness ==
    /\ produced.tag = "dict"
    /\ \E k1, k2, k3 \in DOMAIN produced.d :
          produced.d[k1] = 0 /\ produced.d[k2] < 0 /\ produced.d[k3] > 0
    /\ chart_out["AdvancedPie"] # Unset
    /\ chart_out["MultiLineChart"] # Unset
    /\ chart_out["AdvancedPie"] # None

\* C11: SimpleBarChart.get_chart_data returns None when the producer returned None
\* or an empty mapping, and only then; for any other mapping m it returns
\* {"values": v} where v has exactly the keys of m and v[k] is the one-element
\* sequence [m[k]], zero values included.
C11_BarChartKeepsZeros ==
    chart_out["SimpleBarChart"] # Unset =>
        IF produced.tag = "none" \/ DOMAIN produced.d = {}
        THEN chart_out["SimpleBarChart"] = None
        ELSE /\ chart_out["SimpleBarChart"].tag = "dict"
             /\ DOMAIN chart_out["SimpleBarChart"].d = {"values"}
             /\ DOMAIN chart_out["SimpleBarChart"].d["values"] = DOMAIN produced.d
             /\ \A k \in DOMAIN produced.d :
                   /\ Len(chart_out["SimpleBarChart"].d["values"][k]) = 1
                   /\ chart_out["SimpleBarChart"].d["values"][k][1] = produced.d[k]

\* C11 happens: the bar chart was asked with a mapping of two keys that are both 0
C11_Witness ==
    /\ produced.tag = "dict"
    /\ Cardinality(DOMAIN produced.d) = 2
    /\ \A k \in DOMAIN produced.d : produced.d[k] = 0
    /\ chart_out["SimpleBarChart"] # Unset
    /\ chart_out["SimpleBarChart"] # None

\* C12: a send is a success only when the response status is 2xx: a cycle that got
\* any other status (1xx, 3xx, 4xx, 5xx) has taken the error path, with the error
\* logged when log_errors is set and no response logged.
C12_OnlySuccessStatusSucceeds ==
    \A t \in Tasks :
        (cyc[t].status # 0 /\ ~(200 <= cyc[t].status /\ cyc[t].status < 300)) =>
            /\ cyc[t].send = "failed"
            /\ ResponseMessage \notin DOMAIN cyc[t].info_logs
            /\ flags.log_errors => SubmitErrorMessage \in DOMAIN cyc[t].error_logs

\* C13: no exception leaves the task function: when the enabled or service_enabled
\* property or the platform-data or service-data accessor raises, the firing still
\* returns normally; and unless shutdown() was called the fixed-rate task is queued
\* again (or running) after a firing in which one of them raised.
C13_NoFailureLeavesTheTask ==
    /\ \A t \in Tasks :
           cyc[t].raised_at \notin {"enabled", "service_enabled", "platform", "service"}
    /\ \A t \in Tasks :
           (cyc[t].seen_enabled = "raised" \/ cyc[t].seen_service = "raised"
                \/ cyc[t].calls # {}) => cyc[t].result # "raised"
    /\ \A t \in Tasks : (tasks[t].last = "raised" /\ shutdown_calls = 0) =>
           tasks["rate"].state \in {"pending", "running"}

\* the code points a sequence of well-formed UTF-8 bytes stands for: one for each
\* byte that is not a continuation byte, from that byte and the ones after it
IsLeadByte(byte) == byte < 128 \/ byte >= 192
Utf8DecodeAt(b, i) ==
    IF b[i] < 128 THEN b[i]
    ELSE IF b[i] < 224 THEN (b[i] - 192) * 64 + (b[i + 1] - 128)
    ELSE IF b[i] < 240
    THEN (b[i] - 224) * 4096 + (b[i + 1] - 128) * 64 + (b[i + 2] - 128)
    ELSE (b[i] - 240) * 262144 + (b[i + 1] - 128) * 4096 + (b[i + 2] - 128) * 64
            + (b[i + 3] - 128)
Utf8Decode(b) ==
    LET leads == {i \in 1..Len(b) : IsLeadByte(b[i])}
        nth(k) == CHOOSE i \in leads : Cardinality({j \in leads : j <= i}) = k
    IN  [k \in 1..Cardinality(leads) |-> Utf8DecodeAt(b, nth(k))]

\* C14: decompressing what Metrics.compress returned for a str gives the UTF-8 bytes
\* of that str, which decode to it again; decompressing what MetricsBase._compress
\* returned for a dict gives the UTF-8 bytes of its JSON text; and the only call
\* that returns no bytes is Metrics.compress on a str that has no UTF-8 encoding
\* (a lone surrogate).
C14_CompressRoundTrip ==
    /\ gunzipped["compress"] # Unset =>
          /\ gunzipped["compress"] = Utf8Encode(payload)
          /\ gunzipped["compress"].tag = "bytes"
          /\ Utf8Decode(gunzipped["compress"].b) = payload
    /\ gunzipped["_compress"] # Unset =>
          /\ gunzipped["_compress"] = Utf8Encode(JsonDumps(DataOf(payload)))
          /\ gunzipped["_compress"].tag = "bytes"
          /\ Utf8Decode(gunzipped["_compress"].b) = JsonDumps(DataOf(payload))
    /\ gz["_compress"] # Raise
    /\ gz["compress"] = Raise => \E i \in 1..Len(payload) : IsSurrogate(payload[i])

\* C14 happens: both functions were called with a str of a two-byte and a
\* four-byte character and their results were decompressed
C14_Witness ==
    /\ payload = <<233, 128512>>
    /\ gunzipped["compress"] # Unset
    /\ Len(gunzipped["compress"].b) = 6
    /\ gunzipped["_compress"] # Unset

\* a firing of this session has seen enabled or service_enabled false
SelfDisabled ==
    \E t \in Tasks : \/ tasks[t].last = "stopped"
                     \/ cyc[t].seen_enabled = "false"
                     \/ cyc[t].seen_service = "false"

\* C15: once a firing has seen enabled or service_enabled false, no firing starts
\* any more, whatever the two properties would return later and however the clock
\* runs on, and no accessor, chart or transport is called.
C15_SelfDisableIsPermanent ==
    [][SelfDisabled =>
          /\ firings' = firings
          /\ \A t \in Tasks : cyc'[t].calls = {}]_vars

\* C15 happens: the one-shot firing disabled the session, and the clock has reached
\* the time the fixed-rate task was to fire first
C15_Witness ==
    /\ tasks["once"].last = "stopped"
    /\ tasks["rate"].state = "cancelled"
    /\ tasks["rate"].runs = 0
    /\ now >= tasks["rate"].due
    /\ now > tasks["once"].last_start

Envelopes(t) ==
    (IF cyc[t].pc = "send" THEN {cyc[t].platform_data} ELSE {})
        \cup (IF cyc[t].sent # EmptyMap THEN {cyc[t].sent} ELSE {})
ReservedPlatformKeys == {"service", "serverUUID"}
ReservedServiceKeys == {"id", "customCharts"}

\* C17: in every envelope serverUUID is the string form of the session's server
\* UUID, service.id is the session's service id and service.customCharts is the
\* list of chart payloads the cycle gathered, whatever the accessors wrote under
\* those names; every other key an accessor wrote is there with the value written,
\* the platform keys at the top level and the service keys inside service, and there
\* is no further key.
C17_EnvelopeFields ==
    \A t \in Tasks : \A e \in Envelopes(t) :
        /\ e["serverUUID"] = "00000000-0000-0000-0000-000000000001"
        /\ e["service"]["id"] = ServiceId
        /\ e["service"]["customCharts"] = cyc[t].chart_data
        /\ ChartIds(cyc[t].chart_data) = cyc[t].polled \ (cyc[t].failed \cup cyc[t].absent)
        /\ DOMAIN e = DOMAIN cyc[t].platform_written \cup ReservedPlatformKeys
        /\ \A k \in DOMAIN cyc[t].platform_written \ ReservedPlatformKeys :
               e[k] = cyc[t].platform_written[k]
        /\ DOMAIN e["service"] = DOMAIN cyc[t].service_written \cup ReservedServiceKeys
        /\ \A k \in DOMAIN cyc[t].service_written \ ReservedServiceKeys :
               e["service"][k] = cyc[t].service_written[k]

\* C17 happens: an envelope with a chart payload was posted in a cycle whose
\* accessors both wrote the reserved keys
C17_Witness ==
    \E t \in Tasks :
        /\ cyc[t].sent # EmptyMap
        /\ ReservedPlatformKeys \subseteq DOMAIN cyc[t].platform_written
        /\ ReservedServiceKeys \subseteq DOMAIN cyc[t].service_written
        /\ Len(cyc[t].chart_data) >= 1
        /\ "osName" \in DOMAIN cyc[t].sent
        /\ "pluginVersion" \in DOMAIN cyc[t].sent["service"]

\* C18: a session that was enabled at construction has exactly two tasks, both
\* firing into the same cycle function: the one-shot task, due 180 to 360 seconds
\* after construction, and the fixed-rate task, with period 1800, first due 0 to
\* 1800 seconds after the one-shot task and so never before it.
C18_TwoTasksAndTheirDelays ==
    init_enabled = "true" =>
        /\ Tasks = {"once", "rate"}
        /\ \A t \in Tasks : tasks[t].state \in {"pending", "cancelled"}
        /\ tasks["once"].period = 0
        /\ 180 <= tasks["once"].due /\ tasks["once"].due <= 360
        /\ tasks["rate"].period = 1800
        /\ 0 <= tasks["rate"].due - tasks["once"].due
        /\ tasks["rate"].due - tasks["once"].due <= 1800
        /\ tasks["rate"].due >= tasks["once"].due

\* C18 happens: the session got the longest delays, 360 and 1799 seconds, and the
\* clock has run to the time the one-shot task is due
C18_Witness ==
    /\ init_enabled = "true"
    /\ tasks["once"].due = 360
    /\ tasks["rate"].due = 360 + 1799
    /\ tasks["once"].state = "pending"
    /\ now = 360

\* a cycle without its record of the error-logging calls
WithoutErrorLogs(cy) == [cy EXCEPT !.error_logs = EmptyMap]
\* the flags of this session with log_errors set to b
WithLogErrors(b) == [flags EXCEPT !.log_errors = b]
\* the error messages a cycle that polled and sent as cy did is to log
ErrorsOf(cy) ==
    {ErrorMessage(c) : c \in cy.failed}
        \cup (IF cy.send = "failed" THEN {SubmitErrorMessage} ELSE {})

\* C19: with log_errors false no cycle calls log_error; with log_errors true a
\* cycle has called it exactly once for each chart whose producer raised, with that
\* chart's id, and exactly once more when its send failed; and every step of the
\* chart loop and of the send leaves the cycle in the same state, the logged errors
\* apart, whether log_errors is true or false.
C19_ErrorLoggingGated ==
    \A t \in Tasks :
        /\ ~flags.log_errors => cyc[t].error_logs = EmptyMap
        /\ flags.log_errors =>
              /\ DOMAIN cyc[t].error_logs = ErrorsOf(cyc[t])
              /\ \A m \in DOMAIN cyc[t].error_logs : cyc[t].error_logs[m] = 1
        /\ cyc[t].pc = "charts" =>
              \A c \in custom_charts \ cyc[t].polled : \A v \in PollResults(c) :
                  WithoutErrorLogs(PollChartBody(TRUE, cyc[t], c, v))
                      = WithoutErrorLogs(PollChartBody(FALSE, cyc[t], c, v))
        /\ cyc[t].pc = "send" =>
              \A o \in SendOutcomes :
                  WithoutErrorLogs(SendDataBody(WithLogErrors(TRUE), cyc[t], o))
                      = WithoutErrorLogs(SendDataBody(WithLogErrors(FALSE), cyc[t], o))

\* C19 happens: in a session with log_errors true a cycle ended in which a chart
\* raised, another gave its payload and the send failed
C19_Witness ==
    /\ flags.log_errors
    /\ \E t \in Tasks :
          /\ cyc[t].pc = "end"
          /\ cyc[t].failed # {}
          /\ Len(cyc[t].chart_data) >= 1
          /\ cyc[t].send = "failed"
          /\ Cardinality(DOMAIN cyc[t].error_logs) = 2

\* the table config.toml held before the first load
Table0 == ReadConfig(config_file0)

====
